---- MODULE Spec2Model ----
(***************************************************************************)
(* Model of src/app.py: a Streamlit script that fetches OHLCV tables for   *)
(* up to ten tickers, adds technical-indicator columns, draws one chart,   *)
(* shows a per-ticker performance metric and offers a merged CSV export.   *)
(*                                                                         *)
(* Numbers are exact rationals <<n, d>> in lowest terms with d >= 0.       *)
(* d = 0 encodes the IEEE specials: <<0,0>> is NaN, <<1,0>> is +inf and    *)
(* <<-1,0>> is -inf.  Floating-point rounding is not modelled, so every    *)
(* numeric equality below is an equality "up to rounding" of the program.  *)
(***************************************************************************)
EXTENDS Integers, Sequences, FiniteSets, TLC

\* ------------------------------------------------------------------ bounds
MaxShort == 3        \* longest ticker list of the exhaustive short family
MaxPrice == 2        \* close prices of the exhaustive frames are 1..MaxPrice
MaxVol   == 1        \* volumes of the exhaustive frames are 0..MaxVol
MaxRows  == 2        \* longest exhaustive frame of the indicator runs

\* --------------------------------------------------------------- rationals
Abs(n) == IF n < 0 THEN -n ELSE n

Sgn(n) == IF n < 0 THEN -1 ELSE IF n = 0 THEN 0 ELSE 1

RECURSIVE Gcd(_, _)
Gcd(a, b) == IF b = 0 THEN a ELSE Gcd(b, a % b)

Norm(n, d) ==
    IF d = 0 THEN <<Sgn(n), 0>>
    ELSE LET g == Gcd(Abs(n), Abs(d))
         IN  <<(Sgn(d) * n) \div g, Abs(d) \div g>>

NaN == <<0, 0>>

R(n) == <<n, 1>>

IsNaN(x) == x = NaN

RAdd(a, b) ==
    IF a[2] = 0 /\ b[2] = 0
    THEN (IF a = b THEN a ELSE NaN)
    ELSE IF a[2] = 0 THEN a
    ELSE IF b[2] = 0 THEN b
    ELSE LET g == Gcd(a[2], b[2])
         IN  Norm(a[1] * (b[2] \div g) + b[1] * (a[2] \div g), a[2] * (b[2] \div g))

RNeg(a) == <<-a[1], a[2]>>

RSub(a, b) == RAdd(a, RNeg(b))

RMul(a, b) ==
    LET g1 == Gcd(Abs(a[1]), b[2])
        g2 == Gcd(Abs(b[1]), a[2])
    IN  IF a[2] = 0 \/ b[2] = 0
        THEN Norm(a[1] * b[1], 0)
        ELSE Norm((a[1] \div g1) * (b[1] \div g2), (a[2] \div g2) * (b[2] \div g1))

\* x / 0 is +-inf for x # 0 and NaN for x = 0 (numpy float division, which
\* pandas performs with the floating-point warnings silenced).
RDiv(a, b) ==
    IF IsNaN(a) \/ IsNaN(b) THEN NaN
    ELSE IF b[2] = 0 THEN (IF a[2] = 0 THEN NaN ELSE R(0))
    ELSE IF b[1] = 0 THEN Norm(a[1], 0)
    ELSE RMul(a, Norm(b[2] * Sgn(b[1]), Abs(b[1])))

RLess(a, b) == a[1] * b[2] < b[1] * a[2]

ISqrt(n) == CHOOSE r \in 0..n : r * r = n

RSqrt(a) == IF a[2] = 0 THEN a ELSE <<ISqrt(a[1]), ISqrt(a[2])>>

\* ------------------------------------------------------- pandas.Series ops
\* x[lo] + ... + x[hi]; exact sums do not depend on the order of the additions
RECURSIVE SumSeq(_, _, _)
SumSeq(x, lo, hi) ==
    IF lo > hi THEN R(0)
    ELSE IF lo = hi THEN x[lo]
    ELSE LET mid == (lo + hi) \div 2
         IN  RAdd(SumSeq(x, lo, mid), SumSeq(x, mid + 1, hi))

CumSum(x) == [t \in 1..Len(x) |-> SumSeq(x, 1, t)]

MulSeries(x, y) == [t \in 1..Len(x) |-> RMul(x[t], y[t])]

DivSeries(x, y) == [t \in 1..Len(x) |-> RDiv(x[t], y[t])]

SubSeries(x, y) == [t \in 1..Len(x) |-> RSub(x[t], y[t])]

\* variant: min_periods = 1, the mean of the bars available so far
RollingMeanPartial(x, w) ==
    [t \in 1..Len(x) |->
        IF t < w THEN RDiv(SumSeq(x, 1, t), R(t)) ELSE RDiv(SumSeq(x, t - w + 1, t), R(w))]

\* Series.rolling(w).mean(): min_periods defaults to w.
RollingMean(x, w) ==
    [t \in 1..Len(x) |-> IF t < w THEN NaN ELSE RDiv(SumSeq(x, t - w + 1, t), R(w))]

\* Series.rolling(w).std(ddof=0)
RollingStd0(x, w) ==
    [t \in 1..Len(x) |->
        IF t < w THEN NaN
        ELSE LET m  == RDiv(SumSeq(x, t - w + 1, t), R(w))
                 sq == [i \in 1..Len(x) |-> RMul(RSub(x[i], m), RSub(x[i], m))]
             IN  RSqrt(RDiv(SumSeq(sq, t - w + 1, t), R(w)))]

\* The ewm means below are left folds over the series.  A fold over x[lo..hi]
\* is split in halves and the left half is evaluated before the right half is
\* entered, which keeps the nesting of the evaluation logarithmic in the length.
Evaluated(v) == v = v

\* Series.ewm(span=span).mean() with the pandas defaults adjust=True,
\* min_periods=0, on a series without missing values: the mean weighted by
\* (1-alpha)^i, alpha = 2/(span+1), computed as pandas does: before
\* observation t the accumulated weight old_wt is multiplied by 1-alpha, the
\* average is left alone when the observation equals it, and old_wt grows by 1.
RECURSIVE EwmOldWt(_, _)
EwmOldWt(t, span) ==
    IF t = 1 THEN R(1)
    ELSE RAdd(RMul(EwmOldWt(t - 1, span), Norm(span - 1, span + 1)), R(1))

EwmAdjStep(weighted, x, span, t) ==
    IF weighted = x[t] THEN weighted
    ELSE LET old == RMul(EwmOldWt(t - 1, span), Norm(span - 1, span + 1))
         IN  RDiv(RAdd(RMul(old, weighted), x[t]), RAdd(old, R(1)))

RECURSIVE EwmAdjFold(_, _, _, _, _)
EwmAdjFold(x, span, lo, hi, weighted) ==
    IF lo > hi THEN weighted
    ELSE IF lo = hi THEN EwmAdjStep(weighted, x, span, lo)
    ELSE LET mid  == (lo + hi) \div 2
             left == EwmAdjFold(x, span, lo, mid, weighted)
         IN  IF Evaluated(left) THEN EwmAdjFold(x, span, mid + 1, hi, left) ELSE left

EwmMean(x, span) == [t \in 1..Len(x) |-> EwmAdjFold(x, span, 2, t, x[1])]

\* Series.ewm(alpha=alpha, min_periods=minp, adjust=False).mean(), the form
\* the ta library uses.  The running state is <<weighted, old_wt, nobs>>.
EwmRecStep(s, cur, alpha) ==
    LET obs  == ~IsNaN(cur)
        nobs == s[3] + (IF obs THEN 1 ELSE 0)
        old  == RMul(s[2], RSub(R(1), alpha))
    IN  IF IsNaN(s[1]) THEN <<cur, s[2], nobs>>
        ELSE IF ~obs THEN <<s[1], old, nobs>>
        ELSE IF s[1] = cur THEN <<s[1], R(1), nobs>>
        ELSE <<RDiv(RAdd(RMul(old, s[1]), RMul(alpha, cur)), RAdd(old, alpha)),
               R(1), nobs>>

RECURSIVE EwmRecFold(_, _, _, _, _)
EwmRecFold(x, alpha, lo, hi, s) ==
    IF lo > hi THEN s
    ELSE IF lo = hi THEN EwmRecStep(s, x[lo], alpha)
    ELSE LET mid  == (lo + hi) \div 2
             left == EwmRecFold(x, alpha, lo, mid, s)
         IN  IF Evaluated(left) THEN EwmRecFold(x, alpha, mid + 1, hi, left) ELSE left

EwmRecMean(x, alpha, minp) ==
    [t \in 1..Len(x) |->
        LET s == EwmRecFold(x, alpha, 2, t, <<x[1], R(1), IF IsNaN(x[1]) THEN 0 ELSE 1>>)
        IN  IF s[3] >= minp THEN s[1] ELSE NaN]

\* ----------------------------------------------------- ta library columns
\* ta.momentum.RSIIndicator(close).rsi(), window = 14, fillna = False
RSIWindow == 14

RsiSeries(close) ==
    LET n    == Len(close)
        diff == [t \in 1..n |-> IF t = 1 THEN NaN ELSE RSub(close[t], close[t - 1])]
        up   == [t \in 1..n |-> IF ~IsNaN(diff[t]) /\ diff[t][1] > 0 THEN diff[t] ELSE R(0)]
        dn   == [t \in 1..n |-> IF ~IsNaN(diff[t]) /\ diff[t][1] < 0 THEN RNeg(diff[t]) ELSE R(0)]
        emaup == EwmRecMean(up, Norm(1, RSIWindow), RSIWindow)
        emadn == EwmRecMean(dn, Norm(1, RSIWindow), RSIWindow)
    IN  [t \in 1..n |->
            IF emadn[t] = R(0) THEN R(100)
            ELSE RSub(R(100), RDiv(R(100), RAdd(R(1), RDiv(emaup[t], emadn[t]))))]

\* ta.trend.MACD(close): window_slow = 26, window_fast = 12, window_sign = 9
MACDSlow == 26

MACDFast == 12

MACDSign == 9

TaEma(x, periods) == EwmRecMean(x, Norm(2, periods + 1), periods)

MacdSeries(close) == SubSeries(TaEma(close, MACDFast), TaEma(close, MACDSlow))

MacdSignalSeries(close) == TaEma(MacdSeries(close), MACDSign)

\* ta.volatility.BollingerBands(close): window = 20, window_dev = 2
BBWindow == 20

BBDev == 2

BBHigh(close) ==
    LET mavg == RollingMean(close, BBWindow)
        mstd == RollingStd0(close, BBWindow)
    IN  [t \in 1..Len(close) |-> RAdd(mavg[t], RMul(R(BBDev), mstd[t]))]

BBLow(close) ==
    LET mavg == RollingMean(close, BBWindow)
        mstd == RollingStd0(close, BBWindow)
    IN  [t \in 1..Len(close) |-> RSub(mavg[t], RMul(R(BBDev), mstd[t]))]

\* ------------------------------------------------------- pandas.DataFrame
\* A frame is its column labels in order, its index (the bar timestamps) and
\* one value sequence per column.
EmptyDF == [cols |-> <<>>, index |-> <<>>, data |-> <<>>]

ColPos(df, c) == CHOOSE i \in 1..Len(df.cols) : df.cols[i] = c

HasCol(df, c) == \E i \in 1..Len(df.cols) : df.cols[i] = c

Col(df, c) == df.data[ColPos(df, c)]

NRows(df) == Len(df.index)

\* DataFrame.empty
IsEmpty(df) == Len(df.cols) = 0 \/ NRows(df) = 0

\* df[c] = values (the column is stored as an explicit tuple)
SetCol(df, c, values) ==
    LET column == values \o <<>>
    IN  IF HasCol(df, c)
        THEN [df EXCEPT !.data[ColPos(df, c)] = column]
        ELSE [df EXCEPT !.cols = Append(@, c), !.data = Append(@, column)]

\* DataFrame.dropna(): drops every row holding a missing value
DropNa(df) ==
    LET keep == SelectSeq([t \in 1..NRows(df) |-> t],
                          LAMBDA t : \A k \in 1..Len(df.cols) : ~IsNaN(df.data[k][t]))
    IN  [cols  |-> df.cols,
         index |-> [k \in 1..Len(keep) |-> df.index[keep[k]]] \o <<>>,
         data  |-> [c \in 1..Len(df.cols) |->
                       [k \in 1..Len(keep) |-> df.data[c][keep[k]]] \o <<>>] \o <<>>]

\* ---------------------------------------------------------- add_indicators
Catalogue == {"MACD", "RSI", "SMA_20", "SMA_50", "EMA_20", "EMA_50", "BBANDS", "VWAP"}

AddRSI(df, inds) ==
    IF "RSI" \in inds THEN SetCol(df, "RSI", RsiSeries(Col(df, "Close"))) ELSE df

AddMACD(df, inds) ==
    IF "MACD" \in inds
    THEN SetCol(SetCol(df, "MACD", MacdSeries(Col(df, "Close"))),
                "MACD_Signal", MacdSignalSeries(Col(df, "Close")))
    ELSE df

AddSMA(df, inds, w, name) ==
    IF name \in inds THEN SetCol(df, name, RollingMean(Col(df, "Close"), w)) ELSE df

AddEMA(df, inds, span, name) ==
    IF name \in inds THEN SetCol(df, name, EwmMean(Col(df, "Close"), span)) ELSE df

AddBB(df, inds) ==
    IF "BBANDS" \in inds
    THEN SetCol(SetCol(df, "BB_H", BBHigh(Col(df, "Close"))), "BB_L", BBLow(Col(df, "Close")))
    ELSE df

\* variant: the price is not weighted by the volume
VwapSeriesUnweighted(close, volume) == DivSeries(CumSum(close), CumSum(volume))

VwapSeries(close, volume) == DivSeries(CumSum(MulSeries(close, volume)), CumSum(volume))

\* variant: the last branch is taken for every name the earlier branches
\* did not recognise
AddVWAPLoose(df, inds) ==
    IF inds \ (Catalogue \ {"VWAP"}) # {}
    THEN SetCol(df, "VWAP", VwapSeries(Col(df, "Close"), Col(df, "Volume")))
    ELSE df

AddVWAP(df, inds) ==
    IF "VWAP" \in inds
    THEN SetCol(df, "VWAP", VwapSeries(Col(df, "Close"), Col(df, "Volume")))
    ELSE df

\* df = data.copy(); one conditional column assignment per catalogue name;
\* the argument itself is a value here, so the copy is the identity on it.
add_indicators(data, inds) ==
    LET d1 == AddRSI(data, inds)
        d2 == AddMACD(d1, inds)
        d3 == AddSMA(d2, inds, 20, "SMA_20")
        d4 == AddSMA(d3, inds, 50, "SMA_50")
        d5 == AddEMA(d4, inds, 20, "EMA_20")
        d6 == AddEMA(d5, inds, 50, "EMA_50")
        d7 == AddBB(d6, inds)
    IN  AddVWAP(d7, inds)

\* ------------------------------------------------------------------- state
VARIABLES
    tickers,      \* sidebar text input, as its comma-separated raw entries
    indicators,   \* sidebar multiselect: the selected indicator names
    show_volume,  \* sidebar toggle
    provider,     \* what yf.download can answer for each symbol
    pc,           \* position of the script
    ticker_list,  \* stripped entries, at most ten
    i,            \* position of the ticker loop in ticker_list
    all_data,     \* dict ticker -> frame, as its items in insertion order
    fetched,      \* what fetch_data returned in each iteration so far
    errors,       \* st.error messages, by ticker
    fig,          \* the figure: its traces and its horizontal lines
    idx,          \* position of the summary loop in all_data
    metrics,      \* st.metric calls
    csv           \* payload of the download button (<<>> before it exists)

vars == <<tickers, indicators, show_volume, provider, pc, ticker_list, i,
          all_data, fetched, errors, fig, idx, metrics, csv>>

\* ------------------------------------------------------------ dict helpers
Keys(d) == [k \in 1..Len(d) |-> d[k].key]

HasKey(d, key) == \E k \in 1..Len(d) : d[k].key = key

KeyPos(d, key) == CHOOSE k \in 1..Len(d) : d[k].key = key

Get(d, key) == d[KeyPos(d, key)].df

\* d[key] = df: an existing key keeps its position, a new key goes last
DictSet(d, key, df) ==
    IF HasKey(d, key)
    THEN [d EXCEPT ![KeyPos(d, key)].df = df]
    ELSE Append(d, [key |-> key, df |-> df])

\* -------------------------------------------------------------- fetch_data
\* An answer of the provider is a raised exception or a raw table.
fetch_data(answer) == IF answer.err THEN EmptyDF ELSE DropNa(answer.raw)

\* ------------------------------------------------------------- ticker_list
MaxTickers == 10

Strip(entry) == entry.sym

Take(s, n) == IF Len(s) <= n THEN s ELSE SubSeq(s, 1, n)

\* variant: the slice [:10] is missing
MakeTickerListNoCap(raw) == [k \in 1..Len(raw) |-> Strip(raw[k])]

MakeTickerList(raw) == Take([k \in 1..Len(raw) |-> Strip(raw[k])], MaxTickers)

\* -------------------------------------------------------------- draw_chart
colors == <<"cyan", "orange", "green", "magenta", "yellow", "red">>

\* variant: the modulus is one short, the last colour is never used
ColorOfShort(idx0) == colors[(idx0 % (Len(colors) - 1)) + 1]

\* colors[idx % len(colors)] for the 0-based position idx0
ColorOf(idx0) == colors[(idx0 % Len(colors)) + 1]

Trace(ticker, kind, row, color, y) ==
    [ticker |-> ticker, kind |-> kind, row |-> row, color |-> color, y |-> y]

Opt(cond, s) == IF cond THEN s ELSE <<>>

\* Series.max() and Series.min() skip missing values
RMax(a, b) == IF IsNaN(a) THEN b ELSE IF IsNaN(b) THEN a ELSE IF RLess(a, b) THEN b ELSE a

RMin(a, b) == IF IsNaN(a) THEN b ELSE IF IsNaN(b) THEN a ELSE IF RLess(b, a) THEN b ELSE a

RECURSIVE MaxOf(_, _, _)
MaxOf(x, lo, hi) ==
    IF lo > hi THEN NaN
    ELSE IF lo = hi THEN x[lo]
    ELSE LET mid == (lo + hi) \div 2
         IN  RMax(MaxOf(x, lo, mid), MaxOf(x, mid + 1, hi))

RECURSIVE MinOf(_, _, _)
MinOf(x, lo, hi) ==
    IF lo > hi THEN NaN
    ELSE IF lo = hi THEN x[lo]
    ELSE LET mid == (lo + hi) \div 2
         IN  RMin(MinOf(x, lo, mid), MinOf(x, mid + 1, hi))

\* variant: the RSI trace is guarded by the MACD column
TracesForMacdGuard(idx0, ticker, data, volume) ==
    LET c == ColorOf(idx0)
    IN  <<Trace(ticker, "Candles", 1, "", "Close")>>
        \o Opt(volume, <<Trace(ticker, "Volume", 1, c, "Volume")>>)
        \o Opt(HasCol(data, "SMA_20"), <<Trace(ticker, "SMA 20", 1, "blue", "SMA_20")>>)
        \o Opt(HasCol(data, "EMA_20"), <<Trace(ticker, "EMA 20", 1, "red", "EMA_20")>>)
        \o Opt(HasCol(data, "BB_H"), <<Trace(ticker, "BB Upper", 1, "gray", "BB_H"),
                                       Trace(ticker, "BB Lower", 1, "gray", "BB_L")>>)
        \o Opt(HasCol(data, "VWAP"), <<Trace(ticker, "VWAP", 1, "white", "VWAP")>>)
        \o Opt(HasCol(data, "MACD"), <<Trace(ticker, "MACD", 2, c, "MACD"),
                                       Trace(ticker, "MACD Signal", 2, "white", "MACD_Signal")>>)
        \o Opt(HasCol(data, "MACD"), <<Trace(ticker, "RSI", 3, c, "RSI")>>)

TracesFor(idx0, ticker, data, volume) ==
    LET c == ColorOf(idx0)
    IN  <<Trace(ticker, "Candles", 1, "", "Close")>>
        \o Opt(volume, <<Trace(ticker, "Volume", 1, c, "Volume")>>)
        \o Opt(HasCol(data, "SMA_20"), <<Trace(ticker, "SMA 20", 1, "blue", "SMA_20")>>)
        \o Opt(HasCol(data, "EMA_20"), <<Trace(ticker, "EMA 20", 1, "red", "EMA_20")>>)
        \o Opt(HasCol(data, "BB_H"), <<Trace(ticker, "BB Upper", 1, "gray", "BB_H"),
                                       Trace(ticker, "BB Lower", 1, "gray", "BB_L")>>)
        \o Opt(HasCol(data, "VWAP"), <<Trace(ticker, "VWAP", 1, "white", "VWAP")>>)
        \o Opt(HasCol(data, "MACD"), <<Trace(ticker, "MACD", 2, c, "MACD"),
                                       Trace(ticker, "MACD Signal", 2, "white", "MACD_Signal")>>)
        \o Opt(HasCol(data, "RSI"), <<Trace(ticker, "RSI", 3, c, "RSI")>>)

HLinesFor(data) ==
    <<[y |-> MaxOf(Col(data, "High"), 1, NRows(data)), color |-> "green"],
      [y |-> MinOf(Col(data, "Low"), 1, NRows(data)), color |-> "red"]>>

RECURSIVE ChartTraces(_, _, _)
ChartTraces(d, n, volume) ==
    IF n = 0 THEN <<>>
    ELSE ChartTraces(d, n - 1, volume) \o TracesFor(n - 1, d[n].key, d[n].df, volume)

RECURSIVE ChartHLines(_, _)
ChartHLines(d, n) ==
    IF n = 0 THEN <<>> ELSE ChartHLines(d, n - 1) \o HLinesFor(d[n].df)

draw_chart(d, volume) ==
    [traces |-> ChartTraces(d, Len(d), volume), hlines |-> ChartHLines(d, Len(d))]

NoFig == [traces |-> <<>>, hlines |-> <<>>]

\* ------------------------------------------------------------ show_summary
\* f"{perf:.2f}": the value rounded to hundredths (ties to even); nan and
\* inf are printed as such.
Fmt2(x) ==
    IF x[2] = 0 THEN x
    ELSE LET n   == x[1] * 100
             q   == n \div x[2]
             rem == n - q * x[2]
             up  == 2 * rem > x[2] \/ (2 * rem = x[2] /\ q % 2 = 1)
         IN  Norm(IF up THEN q + 1 ELSE q, 100)

\* data['Close'][0] and data['Close'][-1] are the first and the last row: the
\* integer keys fall back to positions on the date-indexed column.
Perf(data) ==
    LET close == Col(data, "Close")
        first == close[1]
        last  == close[Len(close)]
    IN  RMul(RDiv(RSub(last, first), first), R(100))

show_summary(data, ticker) == [label |-> ticker, value |-> Fmt2(Perf(data))]

\* -------------------------------------------------------- download_section
RECURSIVE TagAll(_, _)
TagAll(d, n) ==
    IF n = 0 THEN d
    ELSE LET e == TagAll(d, n - 1)
         IN  [e EXCEPT ![n].df = SetCol(e[n].df, "Ticker",
                                         [t \in 1..NRows(e[n].df) |-> e[n].key])]

RECURSIVE UnionCols(_, _)
UnionCols(d, n) ==
    IF n = 0 THEN <<>>
    ELSE LET before == UnionCols(d, n - 1)
             here   == d[n].df.cols
         IN  before \o SelectSeq(here, LAMBDA c : \A k \in 1..Len(before) : before[k] # c)

\* pd.concat: rows of the frames one after the other, columns united in
\* order of first appearance, missing cells NaN
RECURSIVE ConcatRows(_, _, _)
ConcatRows(d, n, cols) ==
    IF n = 0 THEN <<>>
    ELSE ConcatRows(d, n - 1, cols)
         \o [t \in 1..NRows(d[n].df) |->
                <<d[n].df.index[t]>>
                \o [k \in 1..Len(cols) |->
                       IF HasCol(d[n].df, cols[k]) THEN Col(d[n].df, cols[k])[t] ELSE NaN]]

\* DataFrame.to_csv(): a header line, then one line per row, the index
\* first; a missing value is written as the empty field.
ToCsv(d) ==
    LET cols == UnionCols(d, Len(d))
        rows == ConcatRows(d, Len(d), cols)
    IN  <<<<"">> \o cols>>
        \o [r \in 1..Len(rows) |->
               [k \in 1..Len(rows[r]) |->
                   IF k > 1 /\ cols[k - 1] # "Ticker" /\ rows[r][k] = NaN
                   THEN <<>> ELSE rows[r][k]]]

download_section(d) == [data |-> TagAll(d, Len(d)), csv |-> ToCsv(TagAll(d, Len(d)))]

\* ------------------------------------------------------------------ inputs
SymSeq == <<"AAA", "BBB", "CCC", "DDD", "EEE", "FFF", "GGG", "HHH", "III", "JJJ", "KKK", "LLL">>

Symbols == {SymSeq[k] : k \in 1..Len(SymSeq)} \cup {""}

ShortSyms == {"AAA", "BBB"}

\* the text "AAA, BBB, CCC": every entry after the first has a leading blank
Typed(l) == [k \in 1..Len(l) |-> [sym |-> l[k], pad |-> IF k = 1 THEN 0 ELSE 1]]

ShortLists == UNION {[1..n -> ShortSyms] : n \in 1..MaxShort}

OhlcvCols == <<"Open", "High", "Low", "Close", "Volume">>

\* a raw table whose bars have open = high = low = close
MkRaw(closes, volumes) ==
    [cols  |-> OhlcvCols,
     index |-> [t \in 1..Len(closes) |-> t],
     data  |-> <<closes, closes, closes, closes, volumes>>]

Flat(n, c, v) == MkRaw([t \in 1..n |-> R(c)], [t \in 1..n |-> R(v)])

Ramp(n) ==
    MkRaw([t \in 1..n |-> R(1 + (t % 3))],
          [t \in 1..n |-> R(IF t <= 2 THEN 0 ELSE t % 2)])

LongRows == 34

RawNone == MkRaw(<<NaN>>, <<R(1)>>)

RawOne == MkRaw(<<NaN, R(2)>>, <<R(1), R(1)>>)

RawTwo == MkRaw(<<R(1), R(2)>>, <<R(0), R(1)>>)

RawLong == Flat(LongRows, 2, 1)

Err == [err |-> TRUE, raw |-> EmptyDF]

Ok(f) == [err |-> FALSE, raw |-> f]

ShortAnswers == {Err, Ok(RawNone), Ok(RawOne), Ok(RawTwo)}

IndChoices == {{}, {"MACD", "RSI"}, Catalogue, {"MACD", "VWAP", "FOO"}}

LongLens == {Len(colors) + 1, MaxTickers + 1}

\* ------------------------------------------------------------------- Init
InitRun ==
    /\ pc = "start"
    /\ ticker_list = <<>>
    /\ i = 1
    /\ all_data = <<>>
    /\ fetched = <<>>
    /\ errors = <<>>
    /\ fig = NoFig
    /\ idx = 1
    /\ metrics = <<>>
    /\ csv = <<>>

InitShort ==
    /\ tickers \in {Typed(l) : l \in ShortLists}
    /\ provider = [s \in Symbols |-> ShortAnswers]

InitLong ==
    /\ tickers \in {Typed(Take(SymSeq, n)) : n \in LongLens}
                   \cup {Typed(<<"">>), Typed(<<"AAA", "CCC", "AAA">> \o SubSeq(SymSeq, 4, Len(SymSeq)))}
    /\ provider = [s \in Symbols |->
                      IF s = "" THEN {Ok(MkRaw(<<>>, <<>>))}
                      ELSE IF s = "BBB" THEN {Err, Ok(RawTwo)}
                      ELSE {Ok(RawLong)}]

Init ==
    /\ InitShort \/ InitLong
    /\ indicators \in IndChoices
    /\ show_volume \in BOOLEAN
    /\ InitRun

\* ---------------------------------------------------------------- actions
\* line 116-117
Start ==
    /\ pc = "start"
    /\ ticker_list' = MakeTickerList(tickers)
    /\ all_data' = <<>>
    /\ i' = 1
    /\ pc' = "loop"
    /\ UNCHANGED <<tickers, indicators, show_volume, provider, fetched, errors,
                   fig, idx, metrics, csv>>

\* variant: fetch_data without its try/except, the exception ends the script
FetchTickerAbort ==
    /\ pc = "loop"
    /\ i <= Len(ticker_list)
    /\ \E answer \in provider[ticker_list[i]] :
          LET ticker == ticker_list[i]
              data   == fetch_data(answer)
              after  == IF ~IsEmpty(data)
                        THEN DictSet(all_data, ticker, add_indicators(data, indicators))
                        ELSE all_data
          IN  IF answer.err
              THEN /\ pc' = "done"
                   /\ UNCHANGED <<errors, fetched, all_data, i>>
              ELSE /\ errors' = errors
                   /\ fetched' = Append(fetched, [sym |-> ticker, rows |-> NRows(data)])
                   /\ all_data' = after
                   /\ i' = i + 1
                   /\ pc' = IF i < Len(ticker_list) THEN "loop"
                            ELSE IF Len(after) > 0 THEN "chart" ELSE "done"
    /\ UNCHANGED <<tickers, indicators, show_volume, provider, ticker_list,
                   fig, idx, metrics, csv>>

\* one iteration of the ticker loop, lines 118-122, and the test of line 124
\* after the last one
FetchTicker ==
    /\ pc = "loop"
    /\ i <= Len(ticker_list)
    /\ \E answer \in provider[ticker_list[i]] :
          LET ticker == ticker_list[i]
              data   == fetch_data(answer)
              after  == IF ~IsEmpty(data)
                        THEN DictSet(all_data, ticker, add_indicators(data, indicators))
                        ELSE all_data
          IN  /\ errors' = IF answer.err THEN Append(errors, ticker) ELSE errors
              /\ fetched' = Append(fetched, [sym |-> ticker, rows |-> NRows(data)])
              /\ all_data' = after
              /\ i' = i + 1
              /\ pc' = IF i < Len(ticker_list) THEN "loop"
                       ELSE IF Len(after) > 0 THEN "chart" ELSE "done"
    /\ UNCHANGED <<tickers, indicators, show_volume, provider, ticker_list,
                   fig, idx, metrics, csv>>

\* line 125
DrawChart ==
    /\ pc = "chart"
    /\ fig' = draw_chart(all_data, show_volume)
    /\ idx' = 1
    /\ pc' = "summary"
    /\ UNCHANGED <<tickers, indicators, show_volume, provider, ticker_list, i,
                   all_data, fetched, errors, metrics, csv>>

\* one iteration of the summary loop, lines 129-131
ShowSummary ==
    /\ pc = "summary"
    /\ idx <= Len(all_data)
    /\ metrics' = Append(metrics, show_summary(all_data[idx].df, all_data[idx].key))
    /\ idx' = idx + 1
    /\ pc' = IF idx < Len(all_data) THEN "summary" ELSE "download"
    /\ UNCHANGED <<tickers, indicators, show_volume, provider, ticker_list, i,
                   all_data, fetched, errors, fig, csv>>

\* line 134
DownloadSection ==
    /\ pc = "download"
    /\ all_data' = download_section(all_data).data
    /\ csv' = download_section(all_data).csv
    /\ pc' = "done"
    /\ UNCHANGED <<tickers, indicators, show_volume, provider, ticker_list, i,
                   fetched, errors, fig, idx, metrics>>

Next == Start \/ FetchTicker \/ DrawChart \/ ShowSummary \/ DownloadSection

Spec == Init /\ [][Next]_vars

\* ------------------------------------------- runs of the indicator engine
\* One ticker whose table is drawn from: every table of up to MaxRows bars
\* over the small prices and volumes; constant-price tables around the
\* window lengths; and a varying table around the window lengths for the
\* columns whose exact values stay small (the two SMAs and VWAP).
NearWindow == 1

WindowLens == UNION {(w - NearWindow)..(w + NearWindow) : w \in {20, 50}}

ExhaustiveFrames ==
    UNION {{MkRaw(c, v) : c \in [1..n -> {R(p) : p \in 1..MaxPrice}],
                          v \in [1..n -> {R(q) : q \in 0..MaxVol}]} : n \in 1..MaxRows}

FlatFrames == {Flat(n, p, 1) : n \in WindowLens, p \in 1..MaxPrice}

RampFrames == {Ramp(n) : n \in WindowLens}

IndSets ==
    {{c} : c \in Catalogue}
        \cup {{}, {"FOO"}, {"SMA_20", "FOO", "BAR"}, Catalogue \cup {"FOO"}}

RampIndSets == {{"SMA_20"}, {"SMA_50"}, {"VWAP"}, {"SMA_20", "SMA_50", "VWAP", "FOO"}}

ExhaustiveIndSets ==
    {{"EMA_20", "EMA_50"}, {"VWAP"}, {"SMA_20", "SMA_50", "FOO"}, Catalogue \cup {"FOO"}}

IndCases ==
    (ExhaustiveFrames \X ExhaustiveIndSets)
        \cup (FlatFrames \X IndSets)
        \cup (RampFrames \X RampIndSets)

InitInd ==
    /\ tickers = Typed(<<"AAA">>)
    /\ \E case \in IndCases :
          /\ provider = [s \in Symbols |-> {Ok(case[1])}]
          /\ indicators = case[2]
    /\ show_volume = TRUE
    /\ InitRun

SpecInd == InitInd /\ [][Next]_vars

\* ================================================================= claims
AfterLoop == {"chart", "summary", "download", "done"}

AfterChart == {"summary", "download", "done"}

KeySet(d) == {d[k].key : k \in 1..Len(d)}

RECURSIVE Dedup(_, _)
Dedup(q, n) ==
    IF n = 0 THEN <<>>
    ELSE LET before == Dedup(q, n - 1)
         IN  IF \E k \in 1..Len(before) : before[k] = q[n] THEN before ELSE Append(before, q[n])

Syms(q) == [k \in 1..Len(q) |-> q[k].sym]

TickerCell(line, header) == line[CHOOSE k \in 1..Len(header) : header[k] = "Ticker"]

CsvTickers(c) == {TickerCell(c[r], c[1]) : r \in 2..Len(c)}

\* C1: a failing or empty symbol never stops the loop: once the loop is over
\* every entry of ticker_list has been fetched, all_data holds exactly the
\* symbols with a fetch that returned at least one cleaned row, and the export
\* (built whenever all_data is not empty) holds rows of exactly those symbols.
C1_PartialFailure ==
    pc \in AfterLoop =>
        /\ Syms(fetched) = ticker_list
        /\ KeySet(all_data) = {fetched[k].sym : k \in {j \in 1..Len(fetched) : fetched[j].rows > 0}}
        /\ (pc = "done" /\ Len(all_data) > 0) =>
              (Len(csv) > 1 /\ CsvTickers(csv) = KeySet(all_data))

C1_Witness ==
    /\ pc = "done"
    /\ Len(csv) > 1
    /\ Len(errors) > 0
    /\ \E j, k \in 1..Len(fetched) :
          j < k /\ fetched[j].rows = 0 /\ fetched[k].rows > 0 /\ fetched[j].sym # fetched[k].sym
    /\ Len(all_data) < Cardinality({ticker_list[k] : k \in 1..Len(ticker_list)})

\* C2 (as stated): show_summary gives no metric for a dataset with fewer than
\* 2 closes and gives the percent return for every other dataset, the export
\* being produced in both cases.
C2_InsufficientData ==
    (pc = "done" /\ Len(all_data) > 0) =>
        /\ Len(csv) > 1
        /\ \A k \in 1..Len(all_data) :
              LET labelled == {m \in 1..Len(metrics) : metrics[m].label = all_data[k].key}
              IN  IF NRows(all_data[k].df) < 2 THEN labelled = {} ELSE labelled # {}

\* C3 (as stated): the EMA columns start at the first close and follow
\* EMA[t] = alpha*c[t] + (1-alpha)*EMA[t-1] with alpha = 2/(span+1).
EmaRecurrence(df, name, span) ==
    HasCol(df, name) =>
        LET ema   == Col(df, name)
            close == Col(df, "Close")
            alpha == Norm(2, span + 1)
        IN  /\ ema[1] = close[1]
            /\ \A t \in 2..NRows(df) :
                  ema[t] = RAdd(RMul(alpha, close[t]), RMul(RSub(R(1), alpha), ema[t - 1]))

C3_EmaRecurrence ==
    \A k \in 1..Len(all_data) :
        EmaRecurrence(all_data[k].df, "EMA_20", 20) /\ EmaRecurrence(all_data[k].df, "EMA_50", 50)

\* C4: with volumes >= 0 the VWAP column is undefined at every bar up to
\* which the volumes sum to zero and is otherwise the sum of close*volume over
\* the sum of volume, both taken from the first bar of the table.
VwapAt(df, t) ==
    LET vwap   == Col(df, "VWAP")
        close  == Col(df, "Close")
        volume == Col(df, "Volume")
        cumvol == SumSeq(volume, 1, t)
        cumpv  == SumSeq([u \in 1..NRows(df) |-> RMul(close[u], volume[u])], 1, t)
    IN  IF cumvol = R(0) THEN IsNaN(vwap[t])
        ELSE vwap[t][2] # 0 /\ RMul(vwap[t], cumvol) = cumpv

Distinct(q) == \A j, k \in 1..Len(q) : q[j] = q[k] => j = k

\* C5 (as stated): all_data holds at most 10 datasets, its keys are pairwise
\* distinct and stand in the order in which the user first entered them.
C5_EntryOrder ==
    pc \in AfterLoop =>
        /\ Len(all_data) <= 10
        /\ Distinct(Keys(all_data))
        /\ Keys(all_data)
              = SelectSeq(Dedup(Syms(tickers), Len(tickers)), LAMBDA y : HasKey(all_data, y))

\* C5 (amended): all_data holds at most 10 datasets, its keys are pairwise
\* distinct and stand in the order in which a fetch of each symbol first
\* returned rows.
C5_FirstSuccessOrder ==
    pc \in AfterLoop =>
        LET good == SelectSeq(fetched, LAMBDA f : f.rows > 0)
        IN  /\ Len(all_data) <= 10
            /\ Distinct(Keys(all_data))
            /\ Keys(all_data) = Dedup(Syms(good), Len(good))

C5_Witness ==
    /\ pc = "done"
    /\ Len(tickers) > 10
    /\ ~Distinct(ticker_list)
    /\ Len(all_data) >= 9

\* C6 (as stated): once the ticker loop is over the datasets of all_data are
\* only read: no later step changes a column or a row of any of them.
C6_ReadOnly == [][(pc \in AfterLoop) => (all_data' = all_data)]_vars

\* C7: a selected name outside the catalogue changes nothing: every dataset
\* is the one add_indicators returns for the selection without such names.
CleanedInput(df) ==
    [cols  |-> SubSeq(df.cols, 1, Len(OhlcvCols)),
     index |-> df.index,
     data  |-> SubSeq(df.data, 1, Len(OhlcvCols))]

C7_UnknownIgnored ==
    pc \in {"loop", "chart", "summary", "download"} =>
        \A k \in 1..Len(all_data) :
            all_data[k].df
                = add_indicators(CleanedInput(all_data[k].df), indicators \cap Catalogue)

C7_Witness ==
    /\ pc = "chart"
    /\ indicators \ Catalogue # {}
    /\ indicators \cap Catalogue # {}
    /\ Len(all_data) > 0
    /\ Len(all_data[1].df.cols) > Len(OhlcvCols)

\* C8: the palette colour of the dataset at 0-based position p of all_data is
\* entry p mod 6 of the palette, so position 6 repeats the colour of position 0.
PaletteByPosition ==
    <<"cyan", "orange", "green", "magenta", "yellow", "red", "cyan", "orange", "green", "magenta">>

C8_RoundRobin ==
    pc \in AfterChart =>
        \A n \in 1..Len(fig.traces) :
            fig.traces[n].kind \in {"Volume", "MACD", "RSI"}
                => fig.traces[n].color = PaletteByPosition[KeyPos(all_data, fig.traces[n].ticker)]

C8_Witness ==
    /\ pc \in AfterChart
    /\ Len(all_data) >= 7
    /\ \E m, n \in 1..Len(fig.traces) :
          /\ fig.traces[m].ticker = all_data[1].key
          /\ fig.traces[n].ticker = all_data[7].key
          /\ fig.traces[m].kind = "Volume"
          /\ fig.traces[n].kind = "Volume"
          /\ fig.traces[m].color = fig.traces[n].color

\* C9: an SMA column is undefined at the first w-1 bars and the mean of the
\* trailing w closes at every later bar (so every entry is undefined when
\* the table has fewer than w bars, and every defined entry of a
\* constant-price table is that price).
SmaColumn(df, name, w) ==
    HasCol(df, name) =>
        LET sma   == Col(df, name)
            close == Col(df, "Close")
        IN  \A t \in 1..NRows(df) :
                IF t <= w - 1 THEN IsNaN(sma[t])
                ELSE /\ sma[t][2] # 0
                     /\ RMul(sma[t], R(w)) = SumSeq(close, t - (w - 1), t)
                     /\ (\A u \in 1..NRows(df) : close[u] = close[1]) => sma[t] = close[1]

C9_Sma ==
    \A k \in 1..Len(all_data) :
        SmaColumn(all_data[k].df, "SMA_20", 20) /\ SmaColumn(all_data[k].df, "SMA_50", 50)

C9_Witness ==
    \E k \in 1..Len(all_data) :
        LET df == all_data[k].df
        IN  /\ HasCol(df, "SMA_50")
            /\ HasCol(df, "SMA_20")
            /\ NRows(df) > 50
            /\ Col(df, "Close")[1] # Col(df, "Close")[2]
            /\ ~IsNaN(Col(df, "SMA_50")[NRows(df)])
            /\ IsNaN(Col(df, "SMA_50")[49])

\* C10 (as stated): in every layer the symbols stand in the order of all_data,
\* and a symbol has a trace in the MACD or RSI layer only if its oscillator
\* column holds at least one defined value.
LayerOrder ==
    \A m, n \in 1..Len(fig.traces) :
        (m < n /\ fig.traces[m].row = fig.traces[n].row)
            => KeyPos(all_data, fig.traces[m].ticker) <= KeyPos(all_data, fig.traces[n].ticker)

Populated(df, c) == HasCol(df, c) /\ \E t \in 1..NRows(df) : ~IsNaN(Col(df, c)[t])

InLayer(ticker, row) ==
    \E n \in 1..Len(fig.traces) : fig.traces[n].ticker = ticker /\ fig.traces[n].row = row

C10_PopulatedOnly ==
    pc \in AfterChart =>
        /\ LayerOrder
        /\ \A k \in 1..Len(all_data) :
              /\ InLayer(all_data[k].key, 2) => Populated(all_data[k].df, "MACD")
              /\ InLayer(all_data[k].key, 3) => Populated(all_data[k].df, "RSI")

\* C10 (amended): in every layer the symbols stand in the order of all_data,
\* and a symbol has a trace in the MACD or RSI layer exactly if its dataset has
\* that oscillator column, whether or not any entry of the column is defined.
C10_ColumnPresent ==
    pc \in AfterChart =>
        /\ LayerOrder
        /\ \A k \in 1..Len(all_data) :
              /\ InLayer(all_data[k].key, 2) <=> HasCol(all_data[k].df, "MACD")
              /\ InLayer(all_data[k].key, 3) <=> HasCol(all_data[k].df, "RSI")

C10_Witness ==
    /\ pc \in AfterChart
    /\ Len(all_data) >= 2
    /\ \E j, k \in 1..Len(all_data) :
          /\ InLayer(all_data[j].key, 3)
          /\ ~Populated(all_data[j].df, "RSI")
          /\ InLayer(all_data[k].key, 2)
          /\ Populated(all_data[k].df, "MACD")
====
